---- MODULE Spec2Model ----
(***************************************************************************)
(* Table Row Append Engine of Scripts/excel_backend.py.                    *)
(*                                                                         *)
(* Text is modelled as a sequence of one-character strings, so that the    *)
(* conversions of the program (parse_coordinate, str(), int(), split(),    *)
(* str.replace) are computed character by character.                       *)
(***************************************************************************)
EXTENDS Integers, Sequences, FiniteSets, TLC

VARIABLES disk, backups, th, saves, lastsaver, nreq, init0, call

vars == <<disk, backups, th, saves, lastsaver, nreq, init0, call>>

-----------------------------------------------------------------------------
(* Bounds of the model *)

\* requests accepted by the server in one behaviour
MaxRequests == 2
\* rows of the modelled sheet
MaxRow == 11
\* length of the texts given to parse_coordinate
MaxCoordLen == 3
\* largest row number formatted into a coordinate
MaxCoordRow == 12
\* length of the formula texts given to copy_formulas (after the "=")
MaxFormulaLen == 3

-----------------------------------------------------------------------------
(* Characters and text *)

LowerLetters ==
    <<"a","b","c","d","e","f","g","h","i","j","k","l","m",
      "n","o","p","q","r","s","t","u","v","w","x","y","z">>

UpperLetters ==
    <<"A","B","C","D","E","F","G","H","I","J","K","L","M",
      "N","O","P","Q","R","S","T","U","V","W","X","Y","Z">>

DigitChars == <<"0","1","2","3","4","5","6","7","8","9">>

Range(s) == {s[i] : i \in DOMAIN s}

\* char.isalpha()
isalpha(ch) == ch \in Range(LowerLetters) \cup Range(UpperLetters)

\* char.isdigit()
isdigit(ch) == ch \in Range(DigitChars)

\* char.upper()
upper(ch) ==
    IF ch \in Range(LowerLetters)
    THEN UpperLetters[CHOOSE i \in DOMAIN LowerLetters : LowerLetters[i] = ch]
    ELSE ch

\* char.lower()
lower(ch) ==
    IF ch \in Range(UpperLetters)
    THEN LowerLetters[CHOOSE i \in DOMAIN UpperLetters : UpperLetters[i] = ch]
    ELSE ch

DigitVal(ch) == (CHOOSE i \in DOMAIN DigitChars : DigitChars[i] = ch) - 1

\* int(row_str) on a non-empty text of decimal digits
RECURSIVE int(_)
int(s) ==
    IF Len(s) = 0 THEN 0
    ELSE 10 * int(SubSeq(s, 1, Len(s) - 1)) + DigitVal(s[Len(s)])

\* str(n) of a natural number
RECURSIVE str(_)
str(n) ==
    IF n < 10 THEN <<DigitChars[n + 1]>>
    ELSE str(n \div 10) \o <<DigitChars[(n % 10) + 1]>>

\* s.startswith(p) at position i (1-based)
MatchAt(s, i, p) ==
    /\ i + Len(p) - 1 <= Len(s)
    /\ \A k \in 1..Len(p) : s[i + k - 1] = p[k]

\* s.replace(old, new): every non-overlapping occurrence, scanning from the left
RECURSIVE str_replace(_, _, _)
str_replace(s, old, new) ==
    IF Len(s) = 0 THEN <<>>
    ELSE IF MatchAt(s, 1, old)
         THEN new \o str_replace(SubSeq(s, Len(old) + 1, Len(s)), old, new)
         ELSE <<s[1]>> \o str_replace(Tail(s), old, new)

\* s.split(sep) for a one-character separator
RECURSIVE str_split(_, _)
str_split(s, sep) ==
    IF \A i \in DOMAIN s : s[i] # sep THEN <<s>>
    ELSE LET i == CHOOSE j \in DOMAIN s :
                      s[j] = sep /\ \A k \in 1..(j - 1) : s[k] # sep
         IN <<SubSeq(s, 1, i - 1)>> \o str_split(SubSeq(s, i + 1, Len(s)), sep)

-----------------------------------------------------------------------------
(* parse_coordinate *)

\* the two accumulators of the loop over coord_str
RECURSIVE ParseLoop(_, _, _)
ParseLoop(coord_str, col, row_str) ==
    IF Len(coord_str) = 0 THEN [col |-> col, row_str |-> row_str]
    ELSE LET ch == Head(coord_str)
         IN IF isalpha(ch)
            THEN ParseLoop(Tail(coord_str), col \o <<upper(ch)>>, row_str)
            ELSE IF isdigit(ch)
                 THEN ParseLoop(Tail(coord_str), col, row_str \o <<ch>>)
                 ELSE ParseLoop(Tail(coord_str), col, row_str)

\* variant of ParseResult: the text is refused only when both parts are empty
ParseResult_both(acc) ==
    IF acc.col = <<>> /\ acc.row_str = <<>>
    THEN [ok |-> FALSE, col |-> <<>>, row |-> 0]
    ELSE [ok |-> TRUE, col |-> acc.col, row |-> int(acc.row_str)]

\* ok = FALSE stands for the raised ValueError("Invalid coordinate: ...")
ParseResult(acc) ==
    IF acc.col = <<>> \/ acc.row_str = <<>>
    THEN [ok |-> FALSE, col |-> <<>>, row |-> 0]
    ELSE [ok |-> TRUE, col |-> acc.col, row |-> int(acc.row_str)]

parse_coordinate(coord_str) == ParseResult(ParseLoop(coord_str, <<>>, <<>>))

-----------------------------------------------------------------------------
(* Cells, sheet and table declarations *)

\* columns touched by an append: range(1, 14)
NumCols == 13
\* columns of the modelled sheet; the last one lies outside the appended span
SheetCols == 14
\* is_column_j = (col_idx == 10)
DateCol == 10
\* col_idx = 6 + i
FirstValueCol == 6
\* formula_cols = [2, 3, 4, 5]
formula_cols == <<2, 3, 4, 5>>
\* columns_to_update = ['A', 'B']
columns_to_update == <<"A", "B">>
\* target_cell.number_format = 'dd-mmm-yyyy'
DateFormat == "dd-mmm-yyyy"
\* a cell without an explicit style reports the workbook's default style
DefaultStyle == "Normal"
DefaultFormat == "General"

None == [k |-> "none", s |-> <<>>]
Text(s) == [k |-> "str", s |-> s]
Num(s) == [k |-> "num", s |-> s]
Date(s) == [k |-> "date", s |-> s]

EmptyCell == [value |-> None, style |-> DefaultStyle, number_format |-> DefaultFormat]

\* cell.data_type: a text of more than one character that starts with "=" is a formula
data_type(cell) ==
    IF cell.value.k = "str" /\ Len(cell.value.s) > 1 /\ cell.value.s[1] = "="
    THEN "f"
    ELSE IF cell.value.k = "str" THEN "s"
    ELSE IF cell.value.k = "date" THEN "d"
    ELSE "n"

\* truth value of a cell value (None, "" and 0 are false)
Truthy(v) ==
    /\ v.k # "none"
    /\ v.s # <<>>
    /\ (v.k = "num" => v.s # <<"0">>)

\* cell.has_style
has_style(cell) == cell.style # DefaultStyle

Coords == (1..MaxRow) \X (1..SheetCols)

\* ws.max_row: the last row that holds a cell with a value or a style, at least 1
ws_max_row(cells) ==
    LET used == {r \in 1..MaxRow :
                    \E c \in 1..SheetCols : cells[<<r, c>>] # EmptyCell}
    IN IF used = {} THEN 1 ELSE CHOOSE r \in used : \A q \in used : q <= r

\* ws.cell(row, column, value): a value of None is not assigned
ws_cell_set(cells, row, column, value) ==
    IF value.k = "none" THEN cells
    ELSE [cells EXCEPT ![<<row, column>>].value = value]

-----------------------------------------------------------------------------
(* copy_cell_properties *)

copy_cell_properties(source_cell, target_cell, copy_number_format) ==
    LET styled == IF has_style(source_cell)
                  THEN [target_cell EXCEPT !.style = source_cell.style]
                  ELSE target_cell
    IN IF copy_number_format /\ source_cell.number_format # ""
       THEN [styled EXCEPT !.number_format = source_cell.number_format]
       ELSE styled

-----------------------------------------------------------------------------
(* copy_formulas *)

\* variant of replacement_targets: the lowercase forms are left out
replacement_targets_upper(old_row_str, new_row_str) ==
    LET pair(ch) == <<<<ch>> \o old_row_str, <<ch>> \o new_row_str>>
    IN <<pair(columns_to_update[1]), pair(columns_to_update[2])>>

\* the (old_ref, new_ref) pairs, in the order the loop appends them
replacement_targets(old_row_str, new_row_str) ==
    LET pair(ch) == <<<<ch>> \o old_row_str, <<ch>> \o new_row_str>>
        both(i) == <<pair(columns_to_update[i]), pair(lower(columns_to_update[i]))>>
    IN both(1) \o both(2)

\* for old_ref, new_ref in replacement_targets: updated_formula.replace(...)
RECURSIVE ApplyReplacements(_, _)
ApplyReplacements(formula_text, targets) ==
    IF Len(targets) = 0 THEN formula_text
    ELSE ApplyReplacements(
             str_replace(formula_text, Head(targets)[1], Head(targets)[2]),
             Tail(targets))

\* the value given to the target cell of one formula column
RelocatedValue(source_cell, source_row, target_row) ==
    IF data_type(source_cell) = "f" /\ Truthy(source_cell.value)
    THEN Text(ApplyReplacements(source_cell.value.s,
                                replacement_targets(str(source_row), str(target_row))))
    ELSE source_cell.value

\* variant of copy_formulas: source and target rows are exchanged
copy_formulas_swapped(cells, source_row, target_row) ==
    [rc \in Coords |->
        IF rc[1] = source_row /\ rc[2] \in Range(formula_cols)
        THEN [cells[rc] EXCEPT
                 !.value = RelocatedValue(cells[<<target_row, rc[2]>>],
                                          target_row, source_row)]
        ELSE cells[rc]]

copy_formulas(cells, source_row, target_row) ==
    [rc \in Coords |->
        IF rc[1] = target_row /\ rc[2] \in Range(formula_cols)
        THEN [cells[rc] EXCEPT
                 !.value = RelocatedValue(cells[<<source_row, rc[2]>>],
                                          source_row, target_row)]
        ELSE cells[rc]]

-----------------------------------------------------------------------------
(* insert_row_to_excel: the work between load_workbook and wb.save *)

\* lines 88-104: the table's name, range and style, and the range's bounds.
\* exc = TRUE stands for the ValueError of the unpacking of split(':') or of
\* parse_coordinate.
TableRaised(table) ==
    [exc |-> TRUE, table_name |-> table.displayName,
     table_range |-> table.ref, table_style |-> table.tableStyleInfo,
     start_col_letter |-> <<>>, row_start_num |-> 1,
     end_col_letter |-> <<>>, max_row |-> 1]

\* lines 101-102
ParsedRange(table, start, end) ==
    IF ~start.ok \/ ~end.ok
    THEN TableRaised(table)
    ELSE [exc |-> FALSE, table_name |-> table.displayName,
          table_range |-> table.ref, table_style |-> table.tableStyleInfo,
          start_col_letter |-> start.col, row_start_num |-> start.row,
          end_col_letter |-> end.col, max_row |-> end.row]

\* line 100: start_coord_str, end_coord_str = table_range.split(':')
SplitRange(table, parts) ==
    IF Len(parts) # 2
    THEN TableRaised(table)
    ELSE ParsedRange(table, parse_coordinate(parts[1]), parse_coordinate(parts[2]))

ReadTable(wb) ==
    IF Len(wb.tables) > 0
    THEN SplitRange(wb.tables[1], str_split(wb.tables[1].ref, ":"))
    ELSE [exc |-> FALSE, table_name |-> "", table_range |-> <<>>, table_style |-> "",
          start_col_letter |-> <<"A">>, row_start_num |-> 1,
          end_col_letter |-> <<"M">>, max_row |-> ws_max_row(wb.cells)]

\* variant of new_row_number: the step to the next row is left out
new_row_number_same(last_existing_row) ==
    IF last_existing_row <= 1 THEN 2 ELSE last_existing_row

\* lines 106-112
new_row_number(last_existing_row) ==
    IF last_existing_row <= 1 THEN 2 ELSE last_existing_row + 1

formula_source_row(last_existing_row) ==
    IF last_existing_row <= 1 THEN 1 ELSE last_existing_row

\* line 114: whether the style of the source row is copied to the new row
CopiesStyle(source_row) == source_row >= 1

\* line 121: whether copy_formulas runs
CopiesFormulas(source_row) == source_row > 1

\* variant of CopyRowProperties: the number format is copied in column 10 too
CopyRowProperties_all(cells, source_row, target_row) ==
    [rc \in Coords |->
        IF rc[1] = target_row /\ rc[2] \in 1..NumCols
        THEN copy_cell_properties(cells[<<source_row, rc[2]>>], cells[rc], TRUE)
        ELSE cells[rc]]

\* lines 115-119: the loop over the thirteen columns
CopyRowProperties(cells, source_row, target_row) ==
    [rc \in Coords |->
        IF rc[1] = target_row /\ rc[2] \in 1..NumCols
        THEN copy_cell_properties(cells[<<source_row, rc[2]>>], cells[rc],
                                  rc[2] # DateCol)
        ELSE cells[rc]]

\* lines 114-122
CopyFromSource(cells, source_row, target_row) ==
    IF CopiesStyle(source_row)
    THEN LET styled == CopyRowProperties(cells, source_row, target_row)
         IN IF CopiesFormulas(source_row)
            THEN copy_formulas(styled, source_row, target_row)
            ELSE styled
    ELSE cells

\* variant of ValueColumn: the values go to adjacent columns 1, 2, 3, ...
ValueColumn_adjacent(i) == i

\* the column that receives new_row_data[i] (1-based i): 1, then 6 + (i - 2)
ValueColumn(i) == IF i = 1 THEN 1 ELSE FirstValueCol + (i - 2)

\* lines 128-129
FormatDate(cells, row, col_idx, value) ==
    IF col_idx = DateCol /\ value.k = "date"
    THEN [cells EXCEPT ![<<row, col_idx>>].number_format = DateFormat]
    ELSE cells

\* lines 124-129: new_row_data[0] goes to column 1, the rest to 6, 7, ...
RECURSIVE WriteValues(_, _, _, _)
WriteValues(cells, row, new_row_data, i) ==
    IF i > Len(new_row_data) THEN cells
    ELSE IF i = 1
    THEN WriteValues(ws_cell_set(cells, row, 1, new_row_data[1]),
                     row, new_row_data, 2)
    ELSE WriteValues(FormatDate(ws_cell_set(cells, row, ValueColumn(i),
                                            new_row_data[i]),
                                row, ValueColumn(i), new_row_data[i]),
                     row, new_row_data, i + 1)

\* line 133: one coordinate of the f-string, f"{col}{row}"
format_coordinate(col, row) == col \o str(row)

\* line 133: f"{start_col_letter}{row_start_num}:{end_col_letter}{new_max_row}"
new_ref(t, new_max_row) ==
    format_coordinate(t.start_col_letter, t.row_start_num) \o <<":">>
        \o format_coordinate(t.end_col_letter, new_max_row)

\* lines 131-138: del ws.tables[table_name]; ws.add_table(new_table)
RebuildTable(tables, t, new_max_row) ==
    IF t.table_name # "" /\ t.table_range # <<>>
    THEN Tail(tables) \o
         << [displayName |-> t.table_name,
             ref |-> new_ref(t, new_max_row),
             tableStyleInfo |-> t.table_style] >>
    ELSE tables

\* lines 106-138 once the table is read
BodyAt(wb, new_row_data, t, target, source) ==
    [exc |-> FALSE,
     wb |-> [cells |-> WriteValues(CopyFromSource(wb.cells, source, target),
                                   target, new_row_data, 1),
             tables |-> RebuildTable(wb.tables, t, target)],
     row |-> target, source |-> source,
     styled |-> CopiesStyle(source),
     relocated |-> CopiesStyle(source) /\ CopiesFormulas(source)]

BodyWithTable(wb, new_row_data, t) ==
    IF t.exc
    THEN [exc |-> TRUE, wb |-> wb, row |-> 0, source |-> 0,
          styled |-> FALSE, relocated |-> FALSE]
    ELSE BodyAt(wb, new_row_data, t,
                new_row_number(t.max_row), formula_source_row(t.max_row))

\* lines 86-138 on the loaded workbook; styled and relocated record whether
\* copy_cell_properties and copy_formulas ran
InsertBody(wb, new_row_data) == BodyWithTable(wb, new_row_data, ReadTable(wb))

\* lines 143-145: except Exception turns what the body raised into a returned
\* failure; nothing is raised to the caller
except_Exception(body) ==
    [failed |-> body.exc, raised |-> FALSE, wb |-> body.wb, row |-> body.row,
     source |-> body.source, styled |-> body.styled,
     relocated |-> body.relocated]

\* lines 84-85: load_workbook raises when the file is missing or unreadable.
\* The result holds the workbook that goes on to wb.save.
LoadAndBuild(d, load_ok, new_row_data) ==
    IF ~d.exists \/ ~load_ok
    THEN except_Exception([exc |-> TRUE, wb |-> d.wb, row |-> 0, source |-> 0,
                           styled |-> FALSE, relocated |-> FALSE])
    ELSE except_Exception(InsertBody(d.wb, new_row_data))

\* variant of SaveWorkbook: a save that raises has already replaced the file
SaveWorkbook_partial(d, wb, save_ok) == [exists |-> TRUE, wb |-> wb]

\* line 140: wb.save(target_file) replaces the stored document, or raises and
\* leaves it as it was
SaveWorkbook(d, wb, save_ok) ==
    IF save_ok THEN [exists |-> TRUE, wb |-> wb] ELSE d

\* lines 141 and 145: the first component of the returned pair
InsertResult(failed, save_ok) == ~failed /\ save_ok

-----------------------------------------------------------------------------
(* submit_data: validation and the row of values *)

\* str.strip() for blanks
RECURSIVE strip(_)
strip(s) ==
    IF Len(s) = 0 THEN s
    ELSE IF Head(s) = " " THEN strip(Tail(s))
    ELSE IF s[Len(s)] = " " THEN strip(SubSeq(s, 1, Len(s) - 1))
    ELSE s

\* float(code_str) succeeds; the requests drawn hold digits, letters and blanks
IsFloat(s) == Len(s) > 0 /\ \A i \in DOMAIN s : isdigit(s[i])

\* the format '%Y-%m-%d' of parse_date, the only one the drawn requests use
IsIsoDate(s) ==
    /\ Len(s) = 10
    /\ s[5] = "-" /\ s[8] = "-"
    /\ \A i \in {1, 2, 3, 4, 6, 7, 9, 10} : isdigit(s[i])
    /\ int(SubSeq(s, 6, 7)) \in 1..12
    /\ int(SubSeq(s, 9, 10)) \in 1..31

parse_date(date_str) ==
    IF Len(date_str) = 0 THEN None
    ELSE IF IsIsoDate(date_str) THEN Date(date_str)
    ELSE None

\* lines 174-198: "" when the request is valid, else the message of the 400 reply
ValidationError(data) ==
    LET code_str == strip(data.code)
        title == strip(data.title)
        col_j_str == strip(data.col_j)
    IN IF code_str = <<>> \/ title = <<>> THEN "Code and Title are required"
       ELSE IF ~IsFloat(code_str) THEN "Code must be a number"
       ELSE IF col_j_str # <<>> /\ parse_date(col_j_str) = None
            THEN "Invalid date format"
       ELSE ""

\* line 206: [code, title, col_g, col_h, col_i, col_j, col_k, col_l, col_m]
new_row_data(data) ==
    << Num(strip(data.code)), Text(strip(data.title)), Text(strip(data.col_g)),
       Text(strip(data.col_h)), Text(strip(data.col_i)),
       parse_date(strip(data.col_j)),
       Text(strip(data.col_k)), Text(strip(data.col_l)), Text(strip(data.col_m)) >>

\* variant of AfterBackup: a failed backup ends the request without an append
AfterBackup_abort(backup_ok) == IF backup_ok THEN "insert" ELSE "respond"

\* lines 201-207: the append follows create_backup whatever it returned
AfterBackup(backup_ok) == "insert"

\* lines 24-35: create_backup returns False when the file is missing or the
\* copy raises
create_backup_ok(d, copy_ok) == d.exists /\ copy_ok

\* lines 209-213: the HTTP status of the reply
ReplyStatus(success) == IF success THEN 200 ELSE 500

-----------------------------------------------------------------------------
(* The documents and requests the model draws *)

\* the look of the existing rows: style and number format of the data cells,
\* style and number format of the header cells
Looks ==
    { [style |-> DefaultStyle, fmt |-> DefaultFormat, hstyle |-> DefaultStyle, hfmt |-> DefaultFormat],
      [style |-> "Data", fmt |-> "0.00", hstyle |-> "Header", hfmt |-> "@"],
      [style |-> "Data", fmt |-> DefaultFormat, hstyle |-> DefaultStyle, hfmt |-> DefaultFormat],
      [style |-> DefaultStyle, fmt |-> "0.00", hstyle |-> "Header", hfmt |-> "@"] }

TableDecl(ref, style) ==
    [displayName |-> "Movies", ref |-> ref, tableStyleInfo |-> style]

\* where the header row and the last data row are, and the declared tables
Layouts ==
    { [header |-> 1, bottom |-> 1, tables |-> <<>>],
      [header |-> 1, bottom |-> 2, tables |-> <<>>],
      [header |-> 1, bottom |-> 9, tables |-> <<>>],
      [header |-> 1, bottom |-> 1,
       tables |-> <<TableDecl(<<"A","1",":","M","1">>, "TableStyleMedium2")>>],
      [header |-> 1, bottom |-> 2,
       tables |-> <<TableDecl(<<"A","1",":","M","2">>, "TableStyleMedium2")>>],
      [header |-> 1, bottom |-> 2,
       tables |-> <<TableDecl(<<"A","1",":","M","2">>, "")>>],
      [header |-> 1, bottom |-> 9,
       tables |-> <<TableDecl(<<"A","1",":","M","9">>, "TableStyleMedium2")>>],
      [header |-> 2, bottom |-> 3,
       tables |-> <<TableDecl(<<"B","2",":","N","3">>, "")>>],
      \* damaged declarations: one coordinate, an end point without a row,
      \* three coordinates
      [header |-> 1, bottom |-> 2,
       tables |-> <<TableDecl(<<"A","1">>, "")>>],
      [header |-> 1, bottom |-> 2,
       tables |-> <<TableDecl(<<"A","1",":","M">>, "")>>],
      [header |-> 1, bottom |-> 2,
       tables |-> <<TableDecl(<<"A","1",":","M","2",":","M","3">>, "")>>] }

\* the cell of data row r, column c: B, C and E hold formulas that refer to
\* the row, D a number, J a date, N (outside the span) a note
DataValue(r, c) ==
    CASE c = 1 -> Num(str(r))
      [] c = 2 -> Text(<<"=","A">> \o str(r) \o <<"+","1">>)
      [] c = 3 -> Text(<<"=","B">> \o str(r) \o <<"*","2">>)
      [] c = 4 -> Num(<<"4">>)
      [] c = 5 -> Text(<<"=","a">> \o str(r) \o <<"&","A","A">> \o str(r)
                       \o <<"&","B">> \o str(r) \o <<"0">>)
      [] c = 6 -> Text(<<"T">>)
      [] c = DateCol -> Date(<<"2","0","2","3","-","0","1","-","0","2">>)
      [] c = SheetCols -> Text(<<"n","o","t","e">>)
      [] OTHER -> None

MakeCells(layout, look) ==
    [rc \in Coords |->
        IF rc[1] = layout.header /\ rc[2] <= NumCols
        THEN [value |-> Text(<<"H">> \o str(rc[2])), style |-> look.hstyle,
              number_format |-> look.hfmt]
        ELSE IF rc[1] > layout.header /\ rc[1] <= layout.bottom
        THEN [value |-> DataValue(rc[1], rc[2]), style |-> look.style,
              number_format |-> IF rc[2] = DateCol /\ look.fmt # DefaultFormat
                                THEN "mm/dd/yy" ELSE look.fmt]
        ELSE EmptyCell]

MissingFile == [exists |-> FALSE, wb |-> [cells |-> [rc \in Coords |-> EmptyCell],
                                          tables |-> <<>>]]

DocumentsOf(layouts, looks) ==
    { [exists |-> TRUE,
       wb |-> [cells |-> MakeCells(layout, look), tables |-> layout.tables]] :
         layout \in layouts, look \in looks }

\* the documents the sequential server starts from
Documents == DocumentsOf(Layouts, Looks) \cup {MissingFile}

\* the documents the two-thread server starts from: no table, a header-only
\* table, a table with one data row
ConcDocuments ==
    DocumentsOf({l \in Layouts :
                    /\ l.bottom <= 2
                    /\ l.tables \in {<<>>,
                                     <<TableDecl(<<"A","1",":","M","1">>, "TableStyleMedium2")>>,
                                     <<TableDecl(<<"A","1",":","M","2">>, "")>>}
                    /\ (l.tables = <<>> => l.bottom = 2)},
                {k \in Looks : k.style = "Data" /\ k.fmt = "0.00"})

\* the JSON bodies posted to /api/submit
Requests ==
    { [code |-> <<"1","0","1">>, title |-> <<" ","X"," ">>, col_g |-> <<"g">>,
       col_h |-> <<"h">>, col_i |-> <<"D">>,
       col_j |-> <<"2","0","2","4","-","0","5","-","0","1">>,
       col_k |-> <<"k">>, col_l |-> <<"l">>, col_m |-> <<"m">>],
      [code |-> <<"7">>, title |-> <<"Y">>, col_g |-> <<>>, col_h |-> <<>>,
       col_i |-> <<"D">>, col_j |-> <<>>, col_k |-> <<>>, col_l |-> <<>>,
       col_m |-> <<>>],
      [code |-> <<>>, title |-> <<"Y">>, col_g |-> <<>>, col_h |-> <<>>,
       col_i |-> <<"D">>, col_j |-> <<>>, col_k |-> <<>>, col_l |-> <<>>,
       col_m |-> <<>>],
      [code |-> <<"x">>, title |-> <<"Y">>, col_g |-> <<>>, col_h |-> <<>>,
       col_i |-> <<"D">>, col_j |-> <<>>, col_k |-> <<>>, col_l |-> <<>>,
       col_m |-> <<>>],
      [code |-> <<"7">>, title |-> <<"Y">>, col_g |-> <<>>, col_h |-> <<>>,
       col_i |-> <<"D">>, col_j |-> <<"1","/","2">>, col_k |-> <<>>,
       col_l |-> <<>>, col_m |-> <<>>] }

-----------------------------------------------------------------------------
(* The server: one record per request-handling thread *)

\* disk       the stored document (EXCEL_FILE)
\* backups    the number of backup copies written
\* th         per thread: where it is in submit_data and what the call did
\* saves      the number of successful wb.save calls
\* lastsaver  the thread of the last successful wb.save (0: none)
\* nreq       the number of requests received
\* init0      the document as it was when the server started
\* call       the argument and result of a helper applied on its own

NoWorkbook == [cells |-> [rc \in Coords |-> EmptyCell], tables |-> <<>>]

Idle ==
    [pc |-> "idle", status |-> 0, message |-> "", row |-> <<>>,
     backup_ok |-> FALSE, backed |-> 0, inserts |-> 0, backed_at_insert |-> 0,
     pre |-> [exists |-> FALSE, wb |-> NoWorkbook], epoch |-> 0, wb |-> NoWorkbook,
     new_row |-> 0, source |-> 0, styled |-> FALSE, relocated |-> FALSE,
     failed |-> FALSE, raised |-> FALSE, success |-> FALSE,
     load_ok |-> FALSE, save_ok |-> FALSE]

NoCall == [fn |-> "none"]

InitServer(threads, documents) ==
    /\ disk \in documents
    /\ init0 = disk
    /\ backups = 0
    /\ th = [t \in threads |-> Idle]
    /\ saves = 0
    /\ lastsaver = 0
    /\ nreq = 0
    /\ call = NoCall

Init == InitServer({1}, Documents)

\* lines 170-198: a request arrives; an invalid one is answered 400 at once
Receive ==
    \E t \in DOMAIN th, data \in Requests :
        /\ th[t].pc = "idle"
        /\ nreq < MaxRequests
        /\ nreq' = nreq + 1
        /\ th' = [th EXCEPT ![t] =
                    IF ValidationError(data) # ""
                    THEN [Idle EXCEPT !.status = 400,
                                      !.message = ValidationError(data)]
                    ELSE [Idle EXCEPT !.pc = "backup",
                                      !.row = new_row_data(data)]]
        /\ UNCHANGED <<disk, backups, saves, lastsaver, init0, call>>

\* lines 200-203: create_backup(EXCEL_FILE)
CreateBackup ==
    \E t \in DOMAIN th, copy_ok \in BOOLEAN :
        /\ th[t].pc = "backup"
        /\ backups' = IF create_backup_ok(disk, copy_ok) THEN backups + 1 ELSE backups
        /\ th' = [th EXCEPT ![t].backup_ok = create_backup_ok(disk, copy_ok),
                            ![t].backed = @ + 1,
                            ![t].pc = AfterBackup(create_backup_ok(disk, copy_ok))]
        /\ UNCHANGED <<disk, saves, lastsaver, nreq, init0, call>>

\* lines 84-138: insert_row_to_excel up to wb.save; a failure goes straight to
\* the except clause
Load ==
    \E t \in DOMAIN th, load_ok \in BOOLEAN :
        \E r \in {LoadAndBuild(disk, load_ok, th[t].row)} :
           /\ th[t].pc = "insert"
           /\ r.row <= MaxRow
           /\ th' = [th EXCEPT ![t].inserts = @ + 1,
                               ![t].backed_at_insert = th[t].backed,
                               ![t].load_ok = load_ok,
                               ![t].pre = disk,
                               ![t].epoch = saves,
                               ![t].wb = r.wb,
                               ![t].new_row = r.row,
                               ![t].source = r.source,
                               ![t].styled = r.styled,
                               ![t].relocated = r.relocated,
                               ![t].failed = r.failed,
                               ![t].raised = r.raised,
                               ![t].success = FALSE,
                               ![t].pc = IF r.failed THEN "respond" ELSE "save"]
           /\ UNCHANGED <<disk, backups, saves, lastsaver, nreq, init0, call>>

\* lines 140-145: wb.save and the returned pair
Save ==
    \E t \in DOMAIN th, save_ok \in BOOLEAN :
        /\ th[t].pc = "save"
        /\ disk' = SaveWorkbook(disk, th[t].wb, save_ok)
        /\ saves' = IF save_ok THEN saves + 1 ELSE saves
        /\ lastsaver' = IF save_ok THEN t ELSE lastsaver
        /\ th' = [th EXCEPT ![t].save_ok = save_ok,
                            ![t].success = InsertResult(th[t].failed, save_ok),
                            ![t].pc = "respond"]
        /\ UNCHANGED <<backups, nreq, init0, call>>

\* lines 209-213: the reply; the locals of the call are gone after it
Respond ==
    \E t \in DOMAIN th :
        /\ th[t].pc = "respond"
        /\ th' = [th EXCEPT ![t] =
                    [Idle EXCEPT !.status = ReplyStatus(th[t].success),
                                 !.success = th[t].success,
                                 !.inserts = th[t].inserts,
                                 !.backed = th[t].backed,
                                 !.backed_at_insert = th[t].backed_at_insert]]
        /\ UNCHANGED <<disk, backups, saves, lastsaver, nreq, init0, call>>

Next == Receive \/ CreateBackup \/ Load \/ Save \/ Respond

\* one request at a time
Spec == Init /\ [][Next]_vars

-----------------------------------------------------------------------------
(* Notions the properties are stated with *)

\* the text of the range c0 r0 : c1 r1, for one-letter columns
RangeText(c0, r0, c1, r1) == <<c0>> \o str(r0) \o <<":">> \o <<c1>> \o str(r1)

Letters(s) == {s[i] : i \in {j \in DOMAIN s : isalpha(s[j])}}

\* thread t is back from insert_row_to_excel and has not replied yet
Called(t) == th[t].inserts = 1 /\ th[t].pc = "respond"

\* ... and the call returned (True, ...)
Appended(t) == Called(t) /\ th[t].success

\* a range text that is not exactly two coordinates, each with a letter and a digit
BadRange(ref) ==
    LET colons == {i \in DOMAIN ref : ref[i] = ":"}
        good(lo, hi) == /\ \E i \in lo..hi : isalpha(ref[i])
                        /\ \E i \in lo..hi : isdigit(ref[i])
    IN ~ \E k \in DOMAIN ref :
            colons = {k} /\ good(1, k - 1) /\ good(k + 1, Len(ref))

\* the stored table declarations are damaged
BadTable(wb) == Len(wb.tables) > 0 /\ BadRange(wb.tables[1].ref)

\* one pass over a formula text: every letter A, a, B or b that is followed by
\* the digits of row s gets the digits of row t instead; nothing else changes
RECURSIVE BlindScan(_, _, _)
BlindScan(text, s, t) ==
    IF Len(text) = 0 THEN <<>>
    ELSE IF text[1] \in {"A", "a", "B", "b"} /\ MatchAt(text, 2, str(s))
         THEN <<text[1]>> \o str(t)
                  \o BlindScan(SubSeq(text, 2 + Len(str(s)), Len(text)), s, t)
         ELSE <<text[1]>> \o BlindScan(Tail(text), s, t)

\* the same pass, rewriting only whole references: the letter is not preceded
\* by another letter and the row digits are not followed by another digit
RECURSIVE RefScan(_, _, _, _)
RefScan(text, prev, s, t) ==
    IF Len(text) = 0 THEN <<>>
    ELSE IF /\ text[1] \in {"A", "a", "B", "b"}
            /\ ~isalpha(prev)
            /\ MatchAt(text, 2, str(s))
            /\ (Len(text) > 1 + Len(str(s)) => ~isdigit(text[2 + Len(str(s))]))
         THEN <<text[1]>> \o str(t)
                  \o RefScan(SubSeq(text, 2 + Len(str(s)), Len(text)),
                             str(s)[Len(str(s))], s, t)
         ELSE <<text[1]>> \o RefScan(Tail(text), text[1], s, t)

\* what a formula column of the new row is expected to hold
ExpectedFormulaValue(source_cell, s, t) ==
    IF source_cell.value.k = "str" /\ Len(source_cell.value.s) > 1
          /\ source_cell.value.s[1] = "="
    THEN Text(BlindScan(source_cell.value.s, s, t))
    ELSE source_cell.value

-----------------------------------------------------------------------------
(* Properties of the sequential server (Spec) *)

\* C1: a table that starts as c0 r0 : c1 r1 is, after N successful appends
\* made one after the other, declared once, under the same name, as
\* c0 r0 : c1 (r1 + N); every successful append moves the bottom row by one,
\* the header-only table (r1 = 1) included.
C1_MonotonicGrowth ==
    (init0.exists /\ Len(init0.wb.tables) = 1) =>
        \A c0 \in Letters(init0.wb.tables[1].ref),
           c1 \in Letters(init0.wb.tables[1].ref),
           r0 \in 1..MaxRow, r1 \in 1..MaxRow :
            init0.wb.tables[1].ref = RangeText(c0, r0, c1, r1)
            => /\ Len(disk.wb.tables) = 1
               /\ disk.wb.tables[1].displayName = init0.wb.tables[1].displayName
               /\ disk.wb.tables[1].ref = RangeText(c0, r0, c1, r1 + saves)

\* two appends in a row took the header-only table A1:M1 to A1:M3
C1_Witness ==
    /\ Len(init0.wb.tables) = 1
    /\ init0.wb.tables[1].ref = <<"A","1",":","M","1">>
    /\ saves = 2
    /\ disk.wb.tables[1].ref = <<"A","1",":","M","3">>

C3_ValuePlacement ==
    \A t \in DOMAIN th :
        (Appended(t) /\ Len(th[t].row) = 9) =>
            /\ disk.wb.cells[<<th[t].new_row, 1>>].value = th[t].row[1]
            /\ \A i \in 1..8 :
                  disk.wb.cells[<<th[t].new_row, 5 + i>>].value = th[t].row[i + 1]
            /\ \A c \in 2..5 :
                  disk.wb.cells[<<th[t].new_row, c>>].value =
                      CopyFromSource(th[t].pre.wb.cells, th[t].source,
                                     th[t].new_row)[<<th[t].new_row, c>>].value

\* the request with every field filled was appended below row 9
C3_Witness ==
    /\ Appended(1)
    /\ th[1].new_row = 10
    /\ th[1].row[6].k = "date"
    /\ disk.wb.cells[<<10, 6>>].value = Text(<<"X">>)
    /\ disk.wb.cells[<<10, 13>>].value = Text(<<"m">>)

\* C4: appending to a table without data rows (its range ends at row 1)
\* writes row 2, runs no copy_formulas and applies no copy_cell_properties to
\* row 2: the cells of row 2 keep their style and number format.
C4_EmptyTableBootstrap ==
    \A t \in DOMAIN th :
        (/\ Appended(t)
         /\ Len(th[t].pre.wb.tables) = 1
         /\ th[t].pre.wb.tables[1].ref = <<"A","1",":","M","1">>)
        => /\ th[t].new_row = 2
           /\ ~th[t].relocated
           /\ ~th[t].styled
           /\ \A c \in 1..NumCols :
                 /\ disk.wb.cells[<<2, c>>].style = th[t].pre.wb.cells[<<2, c>>].style
                 /\ c # DateCol =>
                       disk.wb.cells[<<2, c>>].number_format =
                           th[t].pre.wb.cells[<<2, c>>].number_format

\* C6: after a successful append every cell of columns 1..13 of the new row
\* but column 10 has the style of the source row's cell, when that cell has
\* one, and its number format; the cell of column 10 keeps the number format
\* it had, not the source cell's, unless a date was written, which gives it
\* 'dd-mmm-yyyy'.
C6_StyleAndDateColumn ==
    \A t \in DOMAIN th :
        Appended(t) =>
            /\ \A c \in (1..NumCols) \ {DateCol} :
                  /\ has_style(th[t].pre.wb.cells[<<th[t].source, c>>]) =>
                        disk.wb.cells[<<th[t].new_row, c>>].style =
                            th[t].pre.wb.cells[<<th[t].source, c>>].style
                  /\ disk.wb.cells[<<th[t].new_row, c>>].number_format =
                        th[t].pre.wb.cells[<<th[t].source, c>>].number_format
            /\ disk.wb.cells[<<th[t].new_row, DateCol>>].number_format =
                  IF th[t].row[6].k = "date"
                  THEN "dd-mmm-yyyy"
                  ELSE th[t].pre.wb.cells[<<th[t].new_row, DateCol>>].number_format

\* a styled source row whose date cell shows as mm/dd/yy, and no date given:
\* the new date cell did not take that format
C6_Witness ==
    /\ Appended(1)
    /\ th[1].source > 1
    /\ th[1].row[6] = None
    /\ th[1].pre.wb.cells[<<th[1].source, 1>>].style = "Data"
    /\ th[1].pre.wb.cells[<<th[1].source, DateCol>>].number_format = "mm/dd/yy"
    /\ disk.wb.cells[<<th[1].new_row, 1>>].style = "Data"
    /\ disk.wb.cells[<<th[1].new_row, DateCol>>].number_format = DefaultFormat

\* C8: every validated request gets exactly one create_backup and then exactly
\* one insert_row_to_excel; whether the call succeeds, what the stored
\* document becomes and the status of the reply depend on the document, the
\* row and the load and save alone, not on what create_backup returned.
C8_BackupBestEffort ==
    \A t \in DOMAIN th :
        /\ th[t].pc \in {"insert", "save", "respond"} => th[t].backed = 1
        /\ (th[t].pc = "respond" \/ th[t].status \in {200, 500}) =>
              /\ th[t].inserts = 1
              /\ th[t].backed_at_insert = 1
        /\ th[t].pc = "respond" =>
              /\ th[t].success <=> (/\ th[t].pre.exists
                                    /\ th[t].load_ok
                                    /\ ~BadTable(th[t].pre.wb)
                                    /\ th[t].save_ok)
              /\ disk = IF th[t].success
                        THEN [exists |-> TRUE,
                              wb |-> InsertBody(th[t].pre.wb, th[t].row).wb]
                        ELSE th[t].pre
        /\ (th[t].pc = "idle" /\ th[t].status # 400 /\ th[t].backed = 1) =>
              th[t].status = IF th[t].success THEN 200 ELSE 500

\* the copy to the backup file failed, the row was appended all the same
C8_Witness ==
    /\ th[1].pc = "respond"
    /\ th[1].success
    /\ ~th[1].backup_ok
    /\ th[1].pre.exists
    /\ th[1].backed_at_insert = 1
    /\ disk.wb.cells[<<th[1].new_row, 1>>].value = th[1].row[1]

\* C10: a successful append leaves every cell outside columns 1..13 of the
\* new row as it was; it declares no table where there was none and changes
\* of a declared table only the bottom row of its range, which becomes the
\* new row; columns 2..5 of the new row hold the relocated formulas or copied
\* values of the source row, or what they held when no relocation ran.
C10_Frame ==
    \A t \in DOMAIN th :
        Appended(t) =>
            /\ \A rc \in Coords :
                  (rc[1] # th[t].new_row \/ rc[2] > NumCols) =>
                      disk.wb.cells[rc] = th[t].pre.wb.cells[rc]
            /\ Len(disk.wb.tables) = Len(th[t].pre.wb.tables)
            /\ Len(th[t].pre.wb.tables) = 1 =>
                  /\ disk.wb.tables[1].displayName =
                         th[t].pre.wb.tables[1].displayName
                  /\ disk.wb.tables[1].tableStyleInfo =
                         th[t].pre.wb.tables[1].tableStyleInfo
                  /\ \E c0 \in Letters(th[t].pre.wb.tables[1].ref),
                        c1 \in Letters(th[t].pre.wb.tables[1].ref),
                        r0 \in 1..MaxRow, r1 \in 1..MaxRow :
                         /\ th[t].pre.wb.tables[1].ref = RangeText(c0, r0, c1, r1)
                         /\ disk.wb.tables[1].ref =
                                RangeText(c0, r0, c1, th[t].new_row)
            /\ \A c \in 2..5 :
                  disk.wb.cells[<<th[t].new_row, c>>].value =
                      IF th[t].source > 1
                      THEN ExpectedFormulaValue(
                               th[t].pre.wb.cells[<<th[t].source, c>>],
                               th[t].source, th[t].new_row)
                      ELSE th[t].pre.wb.cells[<<th[t].new_row, c>>].value

\* row 10 was appended below a row of formulas: C10 holds the relocated
\* formula, row 9 and the note beside the table are as they were
C10_Witness ==
    /\ Appended(1)
    /\ th[1].new_row = 10
    /\ Len(disk.wb.tables) = 1
    /\ disk.wb.cells[<<10, 3>>].value = Text(<<"=","B","1","0","*","2">>)
    /\ disk.wb.cells[<<9, 3>>].value = Text(<<"=","B","9","*","2">>)
    /\ disk.wb.cells[<<9, SheetCols>>].value = Text(<<"n","o","t","e">>)
    /\ disk.wb.cells[<<10, SheetCols>>] = EmptyCell

-----------------------------------------------------------------------------
(* Two request threads (the development server handles requests in threads) *)

InitConc == InitServer({1, 2}, ConcDocuments)

SpecConc == InitConc /\ [][Next]_vars

\* both threads loaded the same stored version and both calls returned success
Overlapped ==
    /\ Appended(1)
    /\ Appended(2)
    /\ th[1].epoch = th[2].epoch

\* C9: nothing keeps two calls apart. When both load before either saves,
\* both compute the same new row and both return success; the stored document
\* is then the later saver's workbook: the table's bottom row is one below the
\* loaded one although two appends succeeded, and the new row is the later
\* saver's.
C9_LostUpdate ==
    Overlapped =>
        /\ th[1].pre = th[2].pre
        /\ th[1].new_row = th[2].new_row
        /\ saves = th[1].epoch + 2
        /\ lastsaver \in {1, 2}
        /\ disk.wb = th[lastsaver].wb
        /\ disk.wb.cells[<<th[1].new_row, 1>>].value = th[lastsaver].row[1]
        /\ \A c \in 1..SheetCols : disk.wb.cells[<<th[1].new_row + 1, c>>] = EmptyCell
        /\ Len(th[1].pre.wb.tables) = 1 =>
              \A c0 \in Letters(th[1].pre.wb.tables[1].ref),
                 c1 \in Letters(th[1].pre.wb.tables[1].ref),
                 r0 \in 1..MaxRow, r1 \in 1..MaxRow :
                  th[1].pre.wb.tables[1].ref = RangeText(c0, r0, c1, r1)
                  => disk.wb.tables[1].ref = RangeText(c0, r0, c1, r1 + 1)

\* two different rows, both calls returned success; the table went from A1:M2 to A1:M3
\* only and row 3 is the row of thread 2, which saved last
C9_Witness ==
    /\ Overlapped
    /\ th[1].row[1] # th[2].row[1]
    /\ lastsaver = 2
    /\ saves = 2
    /\ init0.wb.tables = <<TableDecl(<<"A","1",":","M","2">>, "")>>
    /\ disk.wb.tables[1].ref = <<"A","1",":","M","3">>
    /\ disk.wb.cells[<<3, 1>>].value = th[2].row[1]
    /\ disk.wb.cells[<<3, 1>>].value # th[1].row[1]

-----------------------------------------------------------------------------
(* parse_coordinate on its own *)

\* the texts of at most n characters of S
TextsUpTo(S, n) == UNION {[1..k -> S] : k \in 0..n}

CoordChars == {"A", "m", "Z", "0", "1", "9", "$", ":"}

\* column labels as written and as expected back
CoordLabels ==
    { <<<<"A">>, <<"A">>>>, <<<<"M">>, <<"M">>>>, <<<<"A","B">>, <<"A","B">>>>,
      <<<<"X","F","D">>, <<"X","F","D">>>>,
      <<<<"m">>, <<"M">>>>, <<<<"a","B">>, <<"A","B">>>> }

CoordCalls ==
    { [fn |-> "parse_coordinate", text |-> s, formatted |-> FALSE,
       label |-> <<>>, expect |-> <<>>, row |-> 0,
       done |-> FALSE, out |-> [ok |-> FALSE, col |-> <<>>, row |-> 0]] :
          s \in TextsUpTo(CoordChars, MaxCoordLen) }
    \cup
    { [fn |-> "parse_coordinate", text |-> format_coordinate(l[1], n),
       formatted |-> TRUE, label |-> l[1], expect |-> l[2], row |-> n,
       done |-> FALSE, out |-> [ok |-> FALSE, col |-> <<>>, row |-> 0]] :
          l \in CoordLabels, n \in 0..MaxCoordRow }

NoDisk == [exists |-> FALSE, wb |-> NoWorkbook]

InitHelper(calls) ==
    /\ call \in calls
    /\ disk = NoDisk
    /\ init0 = NoDisk
    /\ backups = 0
    /\ th = [t \in {1} |-> Idle]
    /\ saves = 0
    /\ lastsaver = 0
    /\ nreq = 0

InitCoord == InitHelper(CoordCalls)

ParseCoordinate ==
    /\ call.fn = "parse_coordinate"
    /\ ~call.done
    /\ call' = [call EXCEPT !.done = TRUE, !.out = parse_coordinate(call.text)]
    /\ UNCHANGED <<disk, backups, th, saves, lastsaver, nreq, init0>>

SpecCoord == InitCoord /\ [][ParseCoordinate]_vars

\* C7: parse_coordinate of a column label followed by the decimal digits of n
\* returns the label in uppercase and n; a text is refused exactly when it has
\* no letter or no digit.
C7_CoordinateRoundTrip ==
    (call.fn = "parse_coordinate" /\ call.done) =>
        /\ call.formatted =>
              call.out = [ok |-> TRUE, col |-> call.expect, row |-> call.row]
        /\ ~call.out.ok <=>
              \/ \A i \in DOMAIN call.text : ~isalpha(call.text[i])
              \/ \A i \in DOMAIN call.text : ~isdigit(call.text[i])

\* "aB12" came back as ("AB", 12)
C7_Witness ==
    /\ call.fn = "parse_coordinate"
    /\ call.done
    /\ call.text = <<"a","B","1","2">>
    /\ call.out = [ok |-> TRUE, col |-> <<"A","B">>, row |-> 12]

-----------------------------------------------------------------------------
(* copy_formulas on its own *)

FormulaChars == {"A", "a", "B", "b", "C", "5", "1", "0", "+"}

\* source rows: one digit, and two digits
FormulaRows == {5, 10}

FormulaValues ==
    { Text(<<"=">> \o s) : s \in TextsUpTo(FormulaChars, MaxFormulaLen) }
    \cup { None, Num(<<"5">>), Text(<<"A","5">>) }

\* a sheet whose row s holds v in formula column c and a formula in column 6
FormulaSheet(v, s, c) ==
    [rc \in Coords |->
        IF rc = <<s, c>> THEN [EmptyCell EXCEPT !.value = v]
        ELSE IF rc = <<s, FirstValueCol>>
        THEN [EmptyCell EXCEPT !.value = Text(<<"=","A">> \o str(s))]
        ELSE EmptyCell]

FormulaCalls ==
    { [fn |-> "copy_formulas", value |-> v, source_row |-> s, col |-> c,
       done |-> FALSE, source |-> <<>>, target |-> <<>>] :
          v \in FormulaValues, s \in FormulaRows, c \in {2, 5} }

InitFormula == InitHelper(FormulaCalls)

RowOf(cells, r) == [c \in 1..SheetCols |-> cells[<<r, c>>]]

CopyFormulas ==
    /\ call.fn = "copy_formulas"
    /\ ~call.done
    /\ \E out \in {copy_formulas(FormulaSheet(call.value, call.source_row, call.col),
                                 call.source_row, call.source_row + 1)} :
          call' = [call EXCEPT !.done = TRUE,
                               !.source = RowOf(out, call.source_row),
                               !.target = RowOf(out, call.source_row + 1)]
    /\ UNCHANGED <<disk, backups, th, saves, lastsaver, nreq, init0>>

SpecFormula == InitFormula /\ [][CopyFormulas]_vars

IsFormula(v) == v.k = "str" /\ Len(v.s) > 1 /\ v.s[1] = "="

\* C5 as claimed: in the formulas of columns 2..5 each reference to row s in
\* column A or B, in either case, gets row t, and no other text changes: a
\* longer row number (A<s>0) or a longer column (AA<s>) stays as it is.
C5_FormulaRelocation ==
    (call.fn = "copy_formulas" /\ call.done /\ IsFormula(call.value)) =>
        call.target[call.col].value =
            Text(RefScan(call.value.s, " ", call.source_row, call.source_row + 1))

\* C5 as the code has it: every occurrence of A<s>, a<s>, B<s> or b<s> in the
\* formula text gets the digits of t, also inside a longer row number or a
\* longer column label, and no other character changes; a cell without a
\* formula is copied as its value; the source row and the columns outside
\* 2..5 are not written.
C5_FormulaRelocationBlind ==
    (call.fn = "copy_formulas" /\ call.done) =>
        /\ IsFormula(call.value) =>
              call.target[call.col].value =
                  Text(BlindScan(call.value.s, call.source_row, call.source_row + 1))
        /\ ~IsFormula(call.value) => call.target[call.col].value = call.value
        /\ \A c \in (1..SheetCols) \ {call.col} : call.target[c] = EmptyCell
        /\ call.source = RowOf(FormulaSheet(call.value, call.source_row, call.col),
                               call.source_row)

\* "=A50" in row 5 became "=A60" in row 6
C5_Witness ==
    /\ call.fn = "copy_formulas"
    /\ call.done
    /\ call.source_row = 5
    /\ call.value = Text(<<"=","A","5","0">>)
    /\ call.target[call.col].value = Text(<<"=","A","6","0">>)

====
